---- MODULE Spec2Model ----
(***************************************************************************)
(* Model of tools/schemapi/codegen.py: the argument-shape resolver         *)
(* (_get_args), the constructor emitter (init_code), the documentation     *)
(* synthesizer (docstring) and the class emitter (schema_class).           *)
(*                                                                         *)
(* A schema (a Python dict) is a record                                    *)
(*   keys                 the keywords present in the dict                 *)
(*   type                 value of "type"          ("" when absent)        *)
(*   properties           names of "properties", in insertion order        *)
(*   required             the "required" list                              *)
(*   additionalProperties value of "additionalProperties" (TRUE if absent) *)
(*   allOf                the "allOf" array of child schemas               *)
(*   description          the lines of "description"                       *)
(* A property name is a sequence of one-character strings, so that         *)
(* identifier validity and lexicographic order are computed, not assumed.  *)
(* Emitted source text is modelled by its sequence of tokens <<kind,name>>;*)
(* the line breaks textwrap inserts between tokens are not modelled.       *)
(***************************************************************************)
EXTENDS Integers, Sequences, FiniteSets, TLC

VARIABLES
    schema,      \* the schema dict handed to the call
    hashseed,    \* the interpreter's string hash seed (fixes set iteration order)
    op,          \* which function was called: "idle" before any call
    rootarg,     \* schema_class's rootschema argument
    reprarg,     \* schema_class's <<schemarepr, rootschemarepr>> arguments
    nodefault,   \* init_code's nodefault argument (a tuple of names)
    result       \* what the call returned, or the error it raised

vars == <<schema, hashseed, op, rootarg, reprarg, nodefault, result>>

----------------------------------------------------------------------------
(* Bounds of the model *)

\* longest "properties" / "required" list of a generated object schema
MaxNames == 2
\* longest "allOf" array of a generated composite
MaxChildren == 2
\* number of distinct hash seeds (set iteration orders) explored
NumSeeds == 2

----------------------------------------------------------------------------
(* Names *)

Lower == <<"a","b","c","d","e","f","g","h","i","j","k","l","m",
           "n","o","p","q","r","s","t","u","v","w","x","y","z">>
Digits == <<"0","1","2","3","4","5","6","7","8","9">>

IndexIn(seq, c) == CHOOSE i \in 1..Len(seq) : seq[i] = c
IsLower(c) == \E i \in 1..Len(Lower) : Lower[i] = c
IsDigit(c) == \E i \in 1..Len(Digits) : Digits[i] = c

\* code point of a character: the order Python compares strings by
Ord(c) == IF IsLower(c) THEN 96 + IndexIn(Lower, c)
          ELSE IF IsDigit(c) THEN 47 + IndexIn(Digits, c)
          ELSE IF c = "_" THEN 95
          ELSE IF c = "-" THEN 45
          ELSE 0

\* str.__lt__: lexicographic by code point, a proper prefix is smaller
RECURSIVE StrLess(_, _)
StrLess(s, t) ==
    IF t = <<>> THEN FALSE
    ELSE IF s = <<>> THEN TRUE
    ELSE IF Ord(Head(s)) # Ord(Head(t)) THEN Ord(Head(s)) < Ord(Head(t))
    ELSE StrLess(Tail(s), Tail(t))

\* a name usable verbatim as a keyword-parameter name
is_valid_identifier(s) ==
    /\ Len(s) > 0
    /\ IsLower(s[1]) \/ s[1] = "_"
    /\ \A i \in 2..Len(s) : IsLower(s[i]) \/ IsDigit(s[i]) \/ s[i] = "_"

N_a == <<"a">>
N_b == <<"b">>
N_x == <<"x">>
N_y == <<"y">>
N_1invalid == <<"1","i","n","v","a","l","i","d">>

\* property names of the generated object schemas
NameUniverse == {N_a, N_b, N_1invalid}

----------------------------------------------------------------------------
(* Schemas *)

Node(keys, type, properties, required, additional, allOf, description) ==
    [keys |-> keys, type |-> type, properties |-> properties,
     required |-> required, additionalProperties |-> additional,
     allOf |-> allOf, description |-> description]

\* {"type": "object", "properties": {...}, "required": [...]}  with the
\* "required" / "additionalProperties" keys present only when given
Obj(properties, required, additional) ==
    Node({"type", "properties"}
           \cup (IF required = <<>> THEN {} ELSE {"required"})
           \cup (IF additional THEN {} ELSE {"additionalProperties"}),
         "object", properties, required, additional, <<>>, <<>>)

\* a schema made of value-less keywords only, e.g. {} or {"anyOf": [...]}
Kw(keys) == Node(keys, "", <<>>, <<>>, TRUE, <<>>, <<>>)

\* {"type": t} plus value-less keywords
Typed(t, keys) == Node(keys \cup {"type"}, t, <<>>, <<>>, TRUE, <<>>, <<>>)

AllOf(children) ==
    Node({"allOf"}, "", <<>>, <<>>, TRUE, children, <<>>)

\* the sequences without repetition over S, of length at most n
DistinctSeqs(S, n) ==
    {q \in UNION {[1..k -> S] : k \in 0..n} :
        \A i, j \in 1..Len(q) : i # j => q[i] # q[j]}

\* the elements of a sequence
Range(seq) == {seq[i] : i \in 1..Len(seq)}

----------------------------------------------------------------------------
(* SchemaInfo: the read-only query view over a schema *)

ConstrainingKeys == {"type", "properties", "enum", "$ref", "anyOf", "oneOf"}

info_properties(info) == IF "properties" \in info.keys THEN info.properties ELSE <<>>
info_required(info) == IF "required" \in info.keys THEN info.required ELSE <<>>
info_description(info) == IF "description" \in info.keys THEN info.description ELSE <<>>
info_allOf(info) == info.allOf

HasObjectSemantics(info) ==
    \/ "type" \in info.keys /\ info.type = "object"
    \/ "properties" \in info.keys

is_allOf(info) == "allOf" \in info.keys /\ Len(info.allOf) > 0
is_empty(info) == info.keys \cap ConstrainingKeys = {}
is_compound(info) ==
    /\ info.keys \cap {"anyOf", "oneOf"} # {}
    /\ ~HasObjectSemantics(info)
is_value(info) ==
    /\ "properties" \notin info.keys
    /\ \/ "type" \in info.keys /\ info.type # "object"
       \/ "type" \notin info.keys /\ "enum" \in info.keys
is_object(info) == HasObjectSemantics(info)

----------------------------------------------------------------------------
(* _get_args *)

\* the tuple (nonkeyword, required, kwds, additional) _get_args returns;
\* ok = FALSE stands for the ValueError it raises instead
Args(nonkeyword, required, kwds, additional) ==
    [ok |-> TRUE, nonkeyword |-> nonkeyword, required |-> required,
     kwds |-> kwds, additional |-> additional]

Raised == [ok |-> FALSE, nonkeyword |-> FALSE, required |-> {},
           kwds |-> {}, additional |-> FALSE]

\* the allOf branch with `additional` combined by any() instead of all()
CombineAllOfAnyAdditional(arginfo) ==
    Args(\A i \in 1..Len(arginfo) : arginfo[i].nonkeyword,
         UNION {arginfo[i].required : i \in 1..Len(arginfo)},
         UNION {arginfo[i].kwds : i \in 1..Len(arginfo)},
         \E i \in 1..Len(arginfo) : arginfo[i].additional)

\* the allOf branch: arginfo is the list of the children's tuples
CombineAllOf(arginfo) ==
    Args(\A i \in 1..Len(arginfo) : arginfo[i].nonkeyword,
         UNION {arginfo[i].required : i \in 1..Len(arginfo)},
         UNION {arginfo[i].kwds : i \in 1..Len(arginfo)},
         \A i \in 1..Len(arginfo) : arginfo[i].additional)

\* the empty / compound branch
PermissiveArgs == Args(TRUE, {}, {}, TRUE)

\* the value branch
ValueArgs == Args(TRUE, {}, {}, FALSE)

\* the object branch without the identifier filter on the required names
ObjectArgsUnfiltered(info) ==
    LET required == Range(info_required(info))
        kwds == {p \in Range(info_properties(info)) : is_valid_identifier(p)}
    IN Args(FALSE, required, kwds \ required, TRUE)

\* the object branch
ObjectArgs(info) ==
    LET required == {p \in Range(info_required(info)) : is_valid_identifier(p)}
        kwds == {p \in Range(info_properties(info)) : is_valid_identifier(p)}
    IN Args(FALSE, required, kwds \ required, TRUE)

\* the chain with a permissive shape instead of the final raise
LeafArgsNoRaise(info) ==
    IF is_empty(info) \/ is_compound(info) THEN PermissiveArgs
    ELSE IF is_value(info) THEN ValueArgs
    ELSE IF is_object(info) THEN ObjectArgs(info)
    ELSE PermissiveArgs

\* the chain with the value test ahead of the empty / compound test
LeafArgsValueFirst(info) ==
    IF is_value(info) THEN ValueArgs
    ELSE IF is_empty(info) \/ is_compound(info) THEN PermissiveArgs
    ELSE IF is_object(info) THEN ObjectArgs(info)
    ELSE Raised

\* the if / elif chain on a schema that is not an allOf composite
LeafArgs(info) ==
    IF is_empty(info) \/ is_compound(info) THEN PermissiveArgs
    ELSE IF is_value(info) THEN ValueArgs
    ELSE IF is_object(info) THEN ObjectArgs(info)
    ELSE Raised

RECURSIVE _get_args(_)
_get_args(info) ==
    IF is_allOf(info)
    THEN LET arginfo == [i \in 1..Len(info_allOf(info)) |->
                            _get_args(info_allOf(info)[i])]
         IN IF \E i \in 1..Len(arginfo) : ~arginfo[i].ok
            THEN Raised
            ELSE CombineAllOf(arginfo)
    ELSE LeafArgs(info)

----------------------------------------------------------------------------
(* Python sets and sorted() *)

\* hash of a string under the interpreter's hash seed
StrHash(s, seed) ==
    LET code == IF s = <<>> THEN 0 ELSE Ord(s[1]) + Len(s) - 1
    IN (code * (seed + 1)) % 5

\* the order in which iterating over the set S yields its elements
RECURSIVE SetIter(_, _)
SetIter(S, seed) ==
    IF S = {} THEN <<>>
    ELSE LET first == CHOOSE e \in S : \A f \in S \ {e} :
                          \/ StrHash(e, seed) < StrHash(f, seed)
                          \/ StrHash(e, seed) = StrHash(f, seed) /\ StrLess(f, e)
         IN <<first>> \o SetIter(S \ {first}, seed)

\* insert e into the ascending sequence seq
RECURSIVE Insert(_, _)
Insert(e, seq) ==
    IF seq = <<>> THEN <<e>>
    ELSE IF StrLess(e, Head(seq)) THEN <<e>> \o seq
    ELSE <<Head(seq)>> \o Insert(e, Tail(seq))

\* list(iterable) in place of sorted(iterable)
Unsorted(seq) == seq

\* sorted(iterable): the elements of seq in ascending order
RECURSIVE sorted(_)
sorted(seq) == IF seq = <<>> THEN <<>> ELSE Insert(Head(seq), sorted(Tail(seq)))

----------------------------------------------------------------------------
(* init_code *)

NoName == <<>>
TokSelf == <<"self", NoName>>
TokArgs == <<"*args", NoName>>
TokKwds == <<"**kwds", NoName>>
\* "p" in the signature, "p=Undefined" in the signature, "p=p" in the call
TokPlain(p) == <<"plain", p>>
TokDefault(p) == <<"default", p>>
TokForward(p) == <<"forward", p>>

MapSeq(Op(_), seq) == [i \in 1..Len(seq) |-> Op(seq[i])]

\* the list args with required and optional names sorted as one block
InitArgsOneBlock(nonkeyword, required, kwds, additional, nd, seed) ==
    <<TokSelf>>
    \o (IF nd # {} THEN MapSeq(TokPlain, sorted(SetIter(nd, seed)))
        ELSE IF nonkeyword THEN <<TokArgs>>
        ELSE <<>>)
    \o MapSeq(TokDefault, sorted(SetIter(required, seed) \o SetIter(kwds, seed)))
    \o (IF additional THEN <<TokKwds>> ELSE <<>>)

\* the list args: the declared parameters
InitArgs(nonkeyword, required, kwds, additional, nd, seed) ==
    <<TokSelf>>
    \o (IF nd # {} THEN MapSeq(TokPlain, sorted(SetIter(nd, seed)))
        ELSE IF nonkeyword THEN <<TokArgs>>
        ELSE <<>>)
    \o MapSeq(TokDefault, sorted(SetIter(required, seed)) \o sorted(SetIter(kwds, seed)))
    \o (IF additional THEN <<TokKwds>> ELSE <<>>)

\* the list super_args: the arguments of the delegated call
InitSuperArgs(nonkeyword, required, kwds, additional, nd, seed) ==
    (IF nd # {} THEN <<>>
     ELSE IF nonkeyword THEN <<TokArgs>>
     ELSE <<>>)
    \o MapSeq(TokForward, sorted(SetIter(nd, seed)) \o sorted(SetIter(required, seed))
                            \o sorted(SetIter(kwds, seed)))
    \o (IF additional THEN <<TokKwds>> ELSE <<>>)

CodeError == [ok |-> FALSE, arglist |-> <<>>, super_arglist |-> <<>>]

\* init_code(classname, schema, rootschema, indent, nodefault), run under
\* hash seed `seed`; ndarg is the nodefault tuple
init_code(sch, ndarg, seed) ==
    LET a == _get_args(sch)
        nd == Range(ndarg)
        required == a.required \ nd
        kwds == a.kwds \ nd
    IN IF ~a.ok THEN CodeError
       ELSE [ok |-> TRUE,
             arglist |-> InitArgs(a.nonkeyword, required, kwds, a.additional, nd, seed),
             super_arglist |-> InitSuperArgs(a.nonkeyword, required, kwds,
                                             a.additional, nd, seed)]

----------------------------------------------------------------------------
(* docstring *)

DocHeader == <<"header", NoName>>       \* "<classname> schema wrapper"
DocBlank == <<"blank", NoName>>         \* ""
DocAttributes == <<"Attributes", NoName>>
DocRule == <<"----------", NoName>>
DocText(line) == <<"text", line>>       \* one line of the description
DocProp(p) == <<"prop", p>>             \* "<p> : <short description>"

\* wrapper.wrap(line) for a line shorter than the wrap width: the line
\* itself, and nothing for an empty line
Wrap(line) == IF line = <<>> THEN <<>> ELSE <<DocText(line)>>

RECURSIVE WrapLines(_)
WrapLines(lines) ==
    IF lines = <<>> THEN <<>> ELSE Wrap(Head(lines)) \o WrapLines(Tail(lines))

\* docstring(classname, schema, rootschema, indent): the lines it joins.
\* Every property of the modelled schemas has the sub-schema {}, whose
\* description is empty and wraps to no line.
docstring(sch) ==
    LET description == info_description(sch)
        properties == info_properties(sch)
        doc1 == IF description # <<>> THEN <<DocBlank>> \o WrapLines(description)
                ELSE <<DocHeader>>
        doc2 == IF properties # <<>>
                THEN doc1 \o <<DocBlank, DocAttributes, DocRule>>
                          \o MapSeq(DocProp, properties)
                ELSE doc1
    IN IF Len(doc2) > 1 THEN doc2 \o <<DocBlank>> ELSE doc2

----------------------------------------------------------------------------
(* schema_class *)

\* what is formatted with !r into the class body
ReprLiteral(sch) == [kind |-> "literal", value |-> sch]
ReprMarker == [kind |-> "CodeSnippet", value |-> Kw({"_schema"})]
ReprOverride(tag) == [kind |-> "override", value |-> Kw({tag})]

\* the rootschema argument: None, the very dict passed as schema, or
\* another dict object holding `value`
RootNone == [given |-> FALSE, same |-> FALSE, value |-> Kw({})]
RootSame(sch) == [given |-> TRUE, same |-> TRUE, value |-> sch]
RootOther(value) == [given |-> TRUE, same |-> FALSE, value |-> value]

\* rootschema is schema, after line 49 defaulted rootschema
RootIsSchema(root) == ~root.given \/ root.same

\* the root literal chosen with == in place of `is`
RootReprByEquality(sch, root, rootOverride) ==
    LET rootschema == IF root.given THEN root.value ELSE sch
    IN IF rootOverride THEN ReprOverride("rootschemarepr")
       ELSE IF rootschema = sch THEN ReprMarker
       ELSE ReprLiteral(rootschema)

\* lines 49-55: the object whose repr becomes the _rootschema literal
RootRepr(sch, root, rootOverride) ==
    LET rootschema == IF root.given THEN root.value ELSE sch
    IN IF rootOverride THEN ReprOverride("rootschemarepr")
       ELSE IF RootIsSchema(root) THEN ReprMarker
       ELSE ReprLiteral(rootschema)

\* line 50: the object whose repr becomes the _schema literal
SchemaRepr(sch, schemaOverride) ==
    IF schemaOverride THEN ReprOverride("schemarepr") ELSE ReprLiteral(sch)

ClassError == [ok |-> FALSE, schema |-> ReprMarker, rootschema |-> ReprMarker,
               docstring |-> <<>>, init_code |-> CodeError]

\* schema_class(classname, schema, rootschema, basename, schemarepr,
\* rootschemarepr): the fields substituted into SCHEMA_CLASS_TEMPLATE, or
\* the error raised while computing them
schema_class(sch, root, overrides, seed) ==
    LET doc == docstring(sch)
        init == init_code(sch, <<>>, seed)
    IN IF ~init.ok THEN ClassError
       ELSE [ok |-> TRUE,
             schema |-> SchemaRepr(sch, overrides[1]),
             rootschema |-> RootRepr(sch, root, overrides[2]),
             docstring |-> doc,
             init_code |-> init]

----------------------------------------------------------------------------
(* Inputs *)

\* {"type":"object","properties":{"x":{},"y":{}},"required":["x"]}
ScenarioA == Obj(<<N_x, N_y>>, <<N_x>>, TRUE)

\* the two branches of the composite
\* {"allOf":[{"type":"object","properties":{"a":{}},"required":["a"]},
\*           {"type":"object","properties":{"b":{}},"additionalProperties":false}]}
BranchRequiredA == Obj(<<N_a>>, <<N_a>>, TRUE)
BranchClosedB == Obj(<<N_b>>, <<>>, FALSE)
ScenarioB == AllOf(<<BranchRequiredA, BranchClosedB>>)

\* {"type":"object","properties":{"1invalid":{}},"required":["1invalid"]}
ScenarioD == Obj(<<N_1invalid>>, <<N_1invalid>>, TRUE)

\* {"$ref": ...}: a reference, which no shape predicate recognises
RefOnly == Kw({"$ref"})

\* the root document of a class whose schema is one of its definitions
RootDocument == Kw({"definitions"})

ObjectLeaves ==
    {Obj(p, r, ad) : p \in DistinctSeqs(NameUniverse, MaxNames),
                     r \in DistinctSeqs(NameUniverse, MaxNames),
                     ad \in BOOLEAN}

KeywordLeaves ==
    {Kw(K) : K \in SUBSET {"$ref", "anyOf", "enum"}}
    \cup {Typed(t, K) : t \in {"string", "object"}, K \in SUBSET {"anyOf"}}

OtherLeaves ==
    { ScenarioA,
      RootDocument,
      \* {"properties": {"a": {}}, "required": ["b"]}: an object without "type"
      Node({"properties", "required"}, "", <<N_a>>, <<N_b>>, TRUE, <<>>, <<>>),
      \* {"type": "string", "properties": {"a": {}}}
      Node({"type", "properties"}, "string", <<N_a>>, <<>>, TRUE, <<>>, <<>>),
      \* {"required": ["a"]}: no constraining keyword
      Node({"required"}, "", <<>>, <<N_a>>, TRUE, <<>>, <<>>),
      \* {"type":"object","properties":{"x":{},"b":{},"a":{}},"required":["b","a"]}
      Obj(<<N_x, N_b, N_a>>, <<N_b, N_a>>, TRUE),
      \* {"allOf": []}
      AllOf(<<>>),
      \* {"allOf": [{"type": "string"}], "type": "object", "properties": {"a": {}}}
      Node({"allOf", "type", "properties"}, "object", <<N_a>>, <<>>, TRUE,
           <<Typed("string", {})>>, <<>>),
      \* {"description": "d\n\ne", "type": "object", "properties": {"b": {}, "a": {}}}
      Node({"description", "type", "properties"}, "object", <<N_b, N_a>>, <<>>, TRUE,
           <<>>, << <<"d">>, <<>>, <<"e">> >>),
      \* {"description": "d", "type": "string"}
      Node({"description", "type"}, "string", <<>>, <<>>, TRUE, <<>>, << <<"d">> >>) }

\* the schemas composites are built from
CoreLeaves ==
    { Kw({}), Typed("string", {}), RefOnly,
      BranchRequiredA, BranchClosedB,
      Obj(<<N_a>>, <<>>, TRUE),
      Obj(<<N_b, N_1invalid>>, <<N_1invalid, N_b>>, TRUE) }

Composites1 ==
    {AllOf(cs) : cs \in UNION {[1..k -> CoreLeaves] : k \in 1..MaxChildren}}

Composites2 ==
    {AllOf(<<c, l>>) : c \in Composites1, l \in CoreLeaves}
    \cup {AllOf(<<l, c>>) : c \in Composites1, l \in CoreLeaves}

Schemas == ObjectLeaves \cup KeywordLeaves \cup OtherLeaves
             \cup Composites1 \cup Composites2

Seeds == 0..(NumSeeds - 1)

NodefaultArgs == { <<>>, <<N_a>>, <<N_b, N_a>>, <<N_a, N_b>>, <<N_y, N_y>> }

RootArgs(sch) == {RootNone, RootSame(sch), RootOther(sch), RootOther(RootDocument)}

----------------------------------------------------------------------------
(* The calls *)

Init ==
    /\ schema \in Schemas
    /\ hashseed \in Seeds
    /\ op = "idle"
    /\ rootarg = RootNone
    /\ reprarg = <<FALSE, FALSE>>
    /\ nodefault = <<>>
    /\ result = [ok |-> FALSE]

CallGetArgs ==
    /\ op = "idle"
    /\ op' = "_get_args"
    /\ result' = _get_args(schema)
    /\ UNCHANGED <<schema, hashseed, rootarg, reprarg, nodefault>>

CallInitCode ==
    /\ op = "idle"
    /\ \E nd \in NodefaultArgs :
          /\ nodefault' = nd
          /\ result' = init_code(schema, nd, hashseed)
    /\ op' = "init_code"
    /\ UNCHANGED <<schema, hashseed, rootarg, reprarg>>

CallDocstring ==
    /\ op = "idle"
    /\ op' = "docstring"
    /\ result' = [ok |-> TRUE, doc |-> docstring(schema)]
    /\ UNCHANGED <<schema, hashseed, rootarg, reprarg, nodefault>>

CallSchemaClass ==
    /\ op = "idle"
    /\ \E root \in RootArgs(schema), so \in BOOLEAN, ro \in BOOLEAN :
          /\ rootarg' = root
          /\ reprarg' = <<so, ro>>
          /\ result' = schema_class(schema, root, <<so, ro>>, hashseed)
    /\ op' = "schema_class"
    /\ UNCHANGED <<schema, hashseed, nodefault>>

Next == CallGetArgs \/ CallInitCode \/ CallDocstring \/ CallSchemaClass

Spec == Init /\ [][Next]_vars

----------------------------------------------------------------------------
(* Helpers of the properties *)

\* the schemas reached from sch through allOf children that are not
\* themselves resolved as composites
RECURSIVE LeafDescendants(_)
LeafDescendants(sch) ==
    IF is_allOf(sch)
    THEN UNION {LeafDescendants(info_allOf(sch)[i]) : i \in 1..Len(info_allOf(sch))}
    ELSE {sch}

\* sch and every schema reached from it through allOf children
RECURSIVE Reached(_)
Reached(sch) ==
    {sch} \cup (IF is_allOf(sch)
                THEN UNION {Reached(info_allOf(sch)[i]) : i \in 1..Len(info_allOf(sch))}
                ELSE {})

MatchesNoShape(sch) ==
    ~(is_allOf(sch) \/ is_empty(sch) \/ is_compound(sch) \/ is_value(sch) \/ is_object(sch))

HasUnclassifiable(sch) == \E d \in Reached(sch) : MatchesNoShape(d)

\* resolved as an object: none of the four shapes of higher priority matches
ResolvedAsObject(sch) ==
    /\ ~is_allOf(sch) /\ ~is_empty(sch) /\ ~is_compound(sch) /\ ~is_value(sch)
    /\ is_object(sch)

\* shape `shape` aggregates the shapes `kids` (a sequence) of the children
Aggregates(shape, kids) ==
    /\ \A n \in shape.required : \E i \in 1..Len(kids) : n \in kids[i].required
    /\ \A i \in 1..Len(kids) : kids[i].required \subseteq shape.required
    /\ \A n \in shape.kwds : \E i \in 1..Len(kids) : n \in kids[i].kwds
    /\ \A i \in 1..Len(kids) : kids[i].kwds \subseteq shape.kwds
    /\ shape.additional <=> ~(\E i \in 1..Len(kids) : ~kids[i].additional)
    /\ shape.nonkeyword <=> ~(\E i \in 1..Len(kids) : ~kids[i].nonkeyword)

ChildShapes(sch) == [i \in 1..Len(info_allOf(sch)) |-> _get_args(info_allOf(sch)[i])]

\* the name a token of a parameter list or call declares or forwards
TokName(tok) == IF tok[1] \in {"plain", "default", "forward"} THEN tok[2] ELSE <<tok[1]>>
Occurrences(seq, name) == Cardinality({i \in 1..Len(seq) : TokName(seq[i]) = name})
NamesOf(seq) == {TokName(seq[i]) : i \in 1..Len(seq)}

\* names of the tokens seq[from+1 .. from+n], all of kind `kind`, ascending
BlockIs(seq, from, n, kind, names) ==
    /\ \A i \in (from + 1)..(from + n) : seq[i][1] = kind
    /\ {seq[i][2] : i \in (from + 1)..(from + n)} = names
    /\ \A i \in (from + 1)..(from + n - 1) : StrLess(seq[i][2], seq[i + 1][2])

----------------------------------------------------------------------------
(* Properties *)

\* C1: for an allOf composite, at any nesting depth, the resolved required
\* and optional sets are the unions of the children's sets, and
\* acceptsAdditional / acceptsPositionalVariadic are the AND of the
\* children's flags; hence they are the unions / ANDs over the leaves.
AllOfAggregatesChildren ==
    (op = "_get_args" /\ is_allOf(schema) /\ result.ok) =>
        /\ Aggregates(result, ChildShapes(schema))
        /\ \A d \in Reached(schema) :
              is_allOf(d) => Aggregates(_get_args(d), ChildShapes(d))
        /\ result.required = UNION {LeafArgs(l).required : l \in LeafDescendants(schema)}
        /\ result.kwds = UNION {LeafArgs(l).kwds : l \in LeafDescendants(schema)}
        /\ result.additional = (\A l \in LeafDescendants(schema) : LeafArgs(l).additional)
        /\ result.nonkeyword = (\A l \in LeafDescendants(schema) : LeafArgs(l).nonkeyword)

\* a nested composite mixing an object branch with a value branch was resolved
WitnessAllOfAggregates ==
    /\ op = "_get_args" /\ result.ok
    /\ schema \in Composites2
    /\ result.required # {} /\ result.kwds # {}
    /\ ~result.additional /\ ~result.nonkeyword

\* C2: for every schema the resolver accepts, composites included, the
\* resolved required set and optional set are disjoint.
RequiredOptionalDisjoint ==
    (op = "_get_args" /\ result.ok) => result.required \cap result.kwds = {}

\* C3 as stated: on an object-shaped schema every resolved name is
\* identifier-valid and declared in the schema's properties, and no error
\* is raised.
ObjectNamesDeclaredInProperties ==
    (op = "_get_args" /\ ResolvedAsObject(schema)) =>
        /\ result.ok
        /\ \A n \in result.required \cup result.kwds :
              is_valid_identifier(n) /\ n \in Range(info_properties(schema))

\* C3 amended: on an object-shaped schema every name of the resolved
\* required set is an identifier-valid name of the schema's required list
\* (declared in properties or not), every name of the optional set is an
\* identifier-valid declared property that is not in the required list, a
\* non-identifier name is in neither set, and no error is raised.
ObjectNamesValidAndListed ==
    (op = "_get_args" /\ ResolvedAsObject(schema)) =>
        /\ result.ok
        /\ \A n \in result.required :
              is_valid_identifier(n) /\ n \in Range(info_required(schema))
        /\ \A n \in result.kwds :
              /\ is_valid_identifier(n)
              /\ n \in Range(info_properties(schema))
              /\ n \notin Range(info_required(schema))
        /\ N_1invalid \notin result.required \cup result.kwds

\* scenario D was resolved: "1invalid", required and declared, was dropped
WitnessObjectNames ==
    /\ op = "_get_args" /\ schema = ScenarioD
    /\ result.ok /\ result.required = {} /\ result.kwds = {}

\* C4: the names declared in the emitted signature (self excluded) are the
\* names forwarded in the super call, and each appears exactly once in
\* the signature and exactly once in the call.
SignatureMatchesCall ==
    (op = "init_code" /\ result.ok) =>
        LET declared == SubSeq(result.arglist, 2, Len(result.arglist))
            forwarded == result.super_arglist
        IN /\ result.arglist[1] = TokSelf
           /\ NamesOf(declared) = NamesOf(forwarded)
           /\ \A n \in NamesOf(declared) :
                 Occurrences(declared, n) = 1 /\ Occurrences(forwarded, n) = 1

\* C5: scenario B resolves to required={a}, optional={b},
\* acceptsAdditional=false, and its constructor has no trailing **kwds.
ScenarioBRefusesAdditional ==
    /\ (op = "_get_args" /\ schema = ScenarioB) =>
          /\ result.ok
          /\ result.required = {N_a} /\ result.kwds = {N_b}
          /\ ~result.additional
    /\ (op = "init_code" /\ schema = ScenarioB) =>
          /\ result.ok
          /\ result.arglist[Len(result.arglist)] # TokKwds

\* C6: the parameter list is self; then the no-default names as plain
\* parameters if any were given, otherwise *args iff the shape is
\* positional-variadic; then the required names, sorted, defaulted; then
\* the optional names, sorted, defaulted; then **kwds iff the shape
\* accepts additional properties.  Scenario A gives x, y, **kwds.
ParameterOrder ==
    (op = "init_code" /\ result.ok) =>
        LET a == _get_args(schema)
            nd == Range(nodefault)
            req == a.required \ nd
            opt == a.kwds \ nd
            L == result.arglist
            np == IF nd # {} THEN Cardinality(nd)
                  ELSE IF a.nonkeyword THEN 1 ELSE 0
            nr == Cardinality(req)
            no == Cardinality(opt)
            nk == IF a.additional THEN 1 ELSE 0
        IN /\ Len(L) = 1 + np + nr + no + nk
           /\ L[1] = TokSelf
           /\ IF nd # {}
              THEN /\ \A i \in 2..(1 + np) : L[i][1] = "plain"
                   /\ {L[i][2] : i \in 2..(1 + np)} = nd
              ELSE a.nonkeyword => L[2] = TokArgs
           /\ BlockIs(L, 1 + np, nr, "default", req)
           /\ BlockIs(L, 1 + np + nr, no, "default", opt)
           /\ a.additional => L[Len(L)] = TokKwds
           /\ (schema = ScenarioA /\ nodefault = <<>>) =>
                 L = <<TokSelf, TokDefault(N_x), TokDefault(N_y), TokKwds>>

\* a constructor with two required and one optional name was emitted under
\* a hash seed that iterates the required names in descending order
WitnessParameterOrder ==
    /\ op = "init_code" /\ result.ok /\ nodefault = <<>>
    /\ Cardinality(_get_args(schema).required) >= 2
    /\ _get_args(schema).kwds # {}
    /\ SetIter(_get_args(schema).required, hashseed)
          # sorted(SetIter(_get_args(schema).required, hashseed))

\* C7 as stated: without a root-schema override the _rootschema literal
\* is the marker _schema whenever the root equals the schema (omitted, the
\* same dict, or an equal copy) and the root literal otherwise; with an
\* override it is the override.
RootMarkerWhenEqual ==
    (op = "schema_class" /\ result.ok) =>
        LET rootschema == IF rootarg.given THEN rootarg.value ELSE schema
        IN IF reprarg[2] THEN result.rootschema = ReprOverride("rootschemarepr")
           ELSE IF rootschema = schema THEN result.rootschema = ReprMarker
           ELSE result.rootschema = ReprLiteral(rootschema)

\* C7 amended: without a root-schema override the _rootschema literal is
\* the marker _schema exactly when the root is omitted or is the very dict
\* passed as the schema; a root that is another dict object, an equal
\* copy included, is embedded as a literal; with an override it is the
\* override.
RootMarkerWhenIdentical ==
    (op = "schema_class" /\ result.ok) =>
        IF reprarg[2] THEN result.rootschema = ReprOverride("rootschemarepr")
        ELSE IF ~rootarg.given \/ rootarg.same THEN result.rootschema = ReprMarker
        ELSE result.rootschema = ReprLiteral(rootarg.value)

\* a class was emitted for a root passed as an equal copy of the schema
WitnessRootCopy ==
    /\ op = "schema_class" /\ result.ok
    /\ rootarg.given /\ ~rootarg.same /\ rootarg.value = schema
    /\ ~reprarg[2]
    /\ result.rootschema = ReprLiteral(schema)

\* C8: if the schema or a schema reached through allOf children matches
\* none of the five shapes, the resolver raises, and init_code and
\* schema_class return nothing: no fragment, no partial class text.
UnclassifiableRaises ==
    HasUnclassifiable(schema) =>
        /\ op = "_get_args" => result = Raised
        /\ op = "init_code" => result = CodeError
        /\ op = "schema_class" => result = ClassError

\* schema_class was called on a nested composite with an unclassifiable
\* grandchild next to well-formed object branches, and raised
WitnessUnclassifiableRaises ==
    /\ op = "schema_class" /\ ~result.ok
    /\ schema \in Composites2
    /\ ~MatchesNoShape(schema)
    /\ \A i \in 1..Len(schema.allOf) : ~MatchesNoShape(schema.allOf[i])
    /\ \E d \in LeafDescendants(schema) : ResolvedAsObject(d)

\* C9: the emitted text does not depend on the iteration order of the
\* required / optional name sets (the hash seed) nor on the order of the
\* no-default names.
EmissionIndependentOfOrder ==
    /\ op = "init_code" =>
          \A s \in Seeds : \A nd \in NodefaultArgs :
              Range(nd) = Range(nodefault) => result = init_code(schema, nd, s)
    /\ op = "schema_class" =>
          \A s \in Seeds : result = schema_class(schema, rootarg, reprarg, s)

\* a constructor was emitted for no-default names given in descending
\* order, under a seed whose iteration order differs from another seed's
WitnessEmissionOrder ==
    /\ op = "init_code" /\ result.ok
    /\ nodefault = <<N_b, N_a>>
    /\ \E s \in Seeds : SetIter(Range(nodefault), s) # SetIter(Range(nodefault), hashseed)
    /\ Cardinality(_get_args(schema).required \cup _get_args(schema).kwds) >= 2

\* C10: the shapes are tested in the order allOf, empty, compound, value,
\* object and the first match decides: empty or compound gives
\* (positional, {}, {}, additional); value gives (positional, {}, {}, no
\* additional); object gives not positional, additional.
FirstMatchingShapeDecides ==
    op = "_get_args" =>
        IF is_allOf(schema)
        THEN result.ok => Aggregates(result, ChildShapes(schema))
        ELSE IF is_empty(schema) \/ is_compound(schema)
        THEN result.ok /\ result.nonkeyword /\ result.additional
                       /\ result.required = {} /\ result.kwds = {}
        ELSE IF is_value(schema)
        THEN result.ok /\ result.nonkeyword /\ ~result.additional
                       /\ result.required = {} /\ result.kwds = {}
        ELSE IF is_object(schema)
        THEN result.ok /\ ~result.nonkeyword /\ result.additional
        ELSE ~result.ok

\* a schema that is both compound and value was resolved as compound
WitnessFirstMatchingShape ==
    /\ op = "_get_args" /\ result.ok
    /\ is_compound(schema) /\ is_value(schema)
    /\ result.additional

====
